---- MODULE Spec2Model ----
(***************************************************************************)
(* OAuth 2.0 authorization-code flow with PKCE of the BuckitBackend.       *)
(*                                                                         *)
(*   app/core/redis_manager.py   the Code Store (four operations on Redis) *)
(*   app/api/routes/auth.py      POST /authorize and POST /token           *)
(*                                                                         *)
(* The Redis server is modelled as a map from keys to entries with an      *)
(* expiry time; every client command is executed by the server in its own  *)
(* step, a MULTI/EXEC pipeline in one step.  Every request handler is a    *)
(* process of its own (any number of server processes share the store).    *)
(***************************************************************************)
EXTENDS Integers, Sequences, FiniteSets, TLC

VARIABLES
    store,      \* the Redis keyspace: the keys present, each with its value, its
                \* expiry time and (for the record) the time it was set
    now,        \* the wall clock, in minutes
    authz,      \* the POST /authorize requests so far; the n-th generated code n
    tokens,     \* the POST /token requests so far
    calls,      \* the direct calls of the four Code Store operations so far
    boots,      \* of every server process, how many times it has been restarted
    redis_pool, \* how many connections of the process's pool are in use
    users,      \* the rows of table users
    creates,    \* the POST /users/ requests so far
    active_connections, \* main.py's registry: user_id -> websocket
    sockets     \* the websocket_endpoint handlers so far; the n-th has websocket n

vars == <<store, now, authz, tokens, calls, boots, redis_pool, users, creates, active_connections, sockets>>

(***************************************************************************)
(* Bounds of the model.                                                    *)
(***************************************************************************)
MaxAuthorize == 2
MaxToken == 2
MaxCalls == 3
MaxRequests == 3
MaxFaults == 1
TickMinutes == 5
MaxTime == 10
MaxRestarts == 1
MaxPoolCalls == 2
MaxCreates == 3
MaxSockets == 3

(***************************************************************************)
(* Program constants.                                                      *)
(***************************************************************************)
expiry_minutes == 10
ACCESS_TOKEN_EXPIRE_MINUTES == 30
SECRET_KEY == "test-secret-key"
ALGORITHM == "HS256"

\* Python's None (and Redis' nil reply) is the empty sequence; a value v is <<v>>
None == <<>>
Some(v) == <<v>>

(***************************************************************************)
(* Inputs.                                                                 *)
(***************************************************************************)
Codes == 1..MaxAuthorize
uuid4_repeating(n) == IF n = 0 THEN 0 ELSE 1
\* str(uuid.uuid4()): the n-th code generated
uuid4(n) == n
auth_key_without_code(auth_code) == <<"auth:", 0>>
\* f"auth:{auth_code}"
auth_key(auth_code) == <<"auth:", auth_code>>

\* the server processes that share the store
Procs == {"web-1", "web-2"}

Verifiers == {"test-verifier", "wrong-verifier"}
GrantTypes == {"authorization_code", "password"}
\* a code no /authorize ever generated
UnknownCode == uuid4(0)

\* Known answers, computed with hashlib and base64 outside the model:
\* base64.urlsafe_b64encode(sha256(v)).rstrip("=") written as a sequence of characters.
KnownChallenge ==
    [v \in Verifiers |->
        IF v = "test-verifier"
        THEN <<"J","B","b","i","q","O","N","G","W","P","a","A","m","w","X","k","_","8","b","T","6","U","n","l","P","f","r","n","6","5","D","3","2","e","Z","l","J","S","-","z","G","G","0">>
        ELSE <<"Z","u","g","O","D","c","X","1","j","S","Z","8","e","h","r","Z","T","Q","t","S","5","N","E","W","5","s","I","L","x","a","k","q","d","D","2","Y","B","y","J","-","x","H","4">>]
\* the same digest of "test-verifier" encoded with padding, and with the standard alphabet
PaddedChallenge ==
    <<"J","B","b","i","q","O","N","G","W","P","a","A","m","w","X","k","_","8","b","T","6","U","n","l","P","f","r","n","6","5","D","3","2","e","Z","l","J","S","-","z","G","G","0","=">>
StdAlphabetChallenge ==
    <<"J","B","b","i","q","O","N","G","W","P","a","A","m","w","X","k","/","8","b","T","6","U","n","l","P","f","r","n","6","5","D","3","2","e","Z","l","J","S","+","z","G","G","0">>
\* the forms <<client_id, redirect_uri, code_challenge>> clients submit to /authorize
AuthorizeForms ==
    { <<"abc", "https://cb", KnownChallenge["test-verifier"]>>,
      <<"xyz", "https://other", KnownChallenge["test-verifier"]>>,
      <<"abc", "https://cb", PaddedChallenge>>,
      <<"xyz", "https://cb", StdAlphabetChallenge>> }

(***************************************************************************)
(* hashlib.sha256, base64.urlsafe_b64encode, str.rstrip                    *)
(***************************************************************************)
\* hashlib.sha256(verifier.encode()).digest(): the 32 bytes of the digest
sha256_digest(verifier) ==
    IF verifier = "test-verifier"
    THEN <<36,22,226,168,227,70,88,246,128,155,5,228,255,198,211,233,73,229,61,250,231,235,144,247,217,230,101,37,47,179,24,109>>
    ELSE <<102,232,14,13,197,245,141,38,124,122,26,217,77,11,82,228,209,22,230,194,11,197,169,42,116,61,152,7,34,126,196,126>>

UrlSafeAlphabet ==
    <<"A","B","C","D","E","F","G","H","I","J","K","L","M","N","O","P","Q","R","S","T","U","V","W","X","Y","Z",
      "a","b","c","d","e","f","g","h","i","j","k","l","m","n","o","p","q","r","s","t","u","v","w","x","y","z",
      "0","1","2","3","4","5","6","7","8","9","-","_">>

B64Char(n) == UrlSafeAlphabet[n + 1]

\* the four characters of one group of three bytes
B64Group(b1, b2, b3) ==
    << B64Char(b1 \div 4),
       B64Char((b1 % 4) * 16 + (b2 \div 16)),
       B64Char((b2 % 16) * 4 + (b3 \div 64)),
       B64Char(b3 % 64) >>

RECURSIVE urlsafe_b64encode(_)
urlsafe_b64encode(bytes) ==
    IF Len(bytes) = 0 THEN <<>>
    ELSE IF Len(bytes) = 1
    THEN << B64Char(bytes[1] \div 4), B64Char((bytes[1] % 4) * 16), "=", "=" >>
    ELSE IF Len(bytes) = 2
    THEN << B64Char(bytes[1] \div 4),
            B64Char((bytes[1] % 4) * 16 + (bytes[2] \div 16)),
            B64Char((bytes[2] % 16) * 4), "=" >>
    ELSE B64Group(bytes[1], bytes[2], bytes[3])
         \o urlsafe_b64encode(SubSeq(bytes, 4, Len(bytes)))

RECURSIVE rstrip(_, _)
rstrip(s, ch) ==
    IF Len(s) > 0 /\ s[Len(s)] = ch THEN rstrip(SubSeq(s, 1, Len(s) - 1), ch) ELSE s

\* base64.urlsafe_b64encode(hashlib.sha256(verifier.encode()).digest()).decode().rstrip("="),
\* for every verifier a client may present
computed_challenge == [v \in Verifiers |-> rstrip(urlsafe_b64encode(sha256_digest(v)), "=")]

compute_code_challenge_padded(verifier) ==
    urlsafe_b64encode(sha256_digest(verifier))
\* token.compute_code_challenge
compute_code_challenge(verifier) == computed_challenge[verifier]

(***************************************************************************)
(* json.dumps / json.loads of a dict of strings.  A dict is a function     *)
(* from its keys; its serialised form is the sequence of its items.        *)
(***************************************************************************)
KeyOrder == <<"client_id", "redirect_uri", "code_challenge", "created_at">>

json_dumps_truncating(data) ==
    LET items == [i \in 1..Len(KeyOrder) |-> <<KeyOrder[i], IF KeyOrder[i] \in DOMAIN data THEN data[KeyOrder[i]] ELSE None>>]
    IN  SubSeq(SelectSeq(items, LAMBDA it : it[1] \in DOMAIN data), 1, 1)
json_dumps(data) ==
    LET items == [i \in 1..Len(KeyOrder) |-> <<KeyOrder[i], IF KeyOrder[i] \in DOMAIN data THEN data[KeyOrder[i]] ELSE None>>]
    IN  SelectSeq(items, LAMBDA it : it[1] \in DOMAIN data)

json_loads(text) ==
    [k \in {text[i][1] : i \in 1..Len(text)} |->
        text[CHOOSE i \in 1..Len(text) : text[i][1] = k][2] ]

\* datetime.isoformat()
isoformat(t) == <<"iso8601", t>>

(***************************************************************************)
(* The Redis server.                                                       *)
(***************************************************************************)
\* a key is visible until its time to live has elapsed
Live_after_a_while(st, key, t) == key \in DOMAIN st /\ st[key].exp > t /\ st[key].set_at < t
\* the key is present and has not expired at time t
Live(st, key, t) == key \in DOMAIN st /\ st[key].exp > t

Remove_flushing(st, key) == [k \in {} |-> st[k]]
\* DEL: the keyspace without the key
Remove(st, key) == [k \in DOMAIN st \ {key} |-> st[k]]

Expire_early(st, t) == [k \in {x \in DOMAIN st : st[x].exp > t + expiry_minutes} |-> st[k]]
\* passive expiry: the keyspace at time t
Expire(st, t) == [k \in {x \in DOMAIN st : st[x].exp > t} |-> st[k]]

redis_execute_keeping(st, cmd, t) ==
    CASE cmd.op = "SETEX" ->
            [reply |-> TRUE,
             store |-> [k \in DOMAIN st \cup {cmd.key} |->
                          IF k = cmd.key THEN [val |-> cmd.val, exp |-> t + cmd.ttl, set_at |-> t]
                          ELSE st[k]]]
      [] cmd.op = "GET" ->
            [reply |-> IF Live(st, cmd.key, t) THEN Some(st[cmd.key].val) ELSE None,
             store |-> st]
      [] cmd.op = "DEL" ->
            [reply |-> IF Live(st, cmd.key, t) THEN 1 ELSE 0,
             store |-> st]
\* one command executed by the server at time t: its reply and the new keyspace
redis_execute(st, cmd, t) ==
    CASE cmd.op = "SETEX" ->
            [reply |-> TRUE,
             store |-> [k \in DOMAIN st \cup {cmd.key} |->
                          IF k = cmd.key THEN [val |-> cmd.val, exp |-> t + cmd.ttl, set_at |-> t]
                          ELSE st[k]]]
      [] cmd.op = "GET" ->
            [reply |-> IF Live(st, cmd.key, t) THEN Some(st[cmd.key].val) ELSE None,
             store |-> st]
      [] cmd.op = "DEL" ->
            [reply |-> IF Live(st, cmd.key, t) THEN 1 ELSE 0,
             store |-> Remove(st, cmd.key)]

\* the commands of a batch executed one after the other with nothing in between
RECURSIVE execute_all(_, _, _)
execute_all(st, cmds, t) ==
    IF cmds = <<>> THEN [replies |-> <<>>, store |-> st]
    ELSE LET first == redis_execute(st, Head(cmds), t)
             rest  == execute_all(first.store, Tail(cmds), t)
         IN  [replies |-> <<first.reply>> \o rest.replies, store |-> rest.store]

(***************************************************************************)
(* redis_manager.py: the commands each operation sends, and what it        *)
(* returns from the replies.  A return is [raised, value].                 *)
(***************************************************************************)
\* r.pipeline(): redis-py's default, transaction=True, wraps the batch in MULTI/EXEC
pipeline_no_transaction == FALSE
pipeline_transaction == TRUE

store_auth_code_cmds_ttl_in_hours(auth_code, data) ==
    << [op |-> "SETEX", key |-> auth_key(auth_code), ttl |-> 60 * expiry_minutes, val |-> json_dumps(data)] >>
store_auth_code_cmds(auth_code, data) ==
    << [op |-> "SETEX", key |-> auth_key(auth_code), ttl |-> expiry_minutes, val |-> json_dumps(data)] >>
get_auth_code_data_cmds_consuming(auth_code) ==
    << [op |-> "GET", key |-> auth_key(auth_code)],
       [op |-> "DEL", key |-> auth_key(auth_code)] >>
get_auth_code_data_cmds(auth_code) ==
    << [op |-> "GET", key |-> auth_key(auth_code)] >>
delete_auth_code_cmds_other_key(auth_code) ==
    << [op |-> "DEL", key |-> auth_key("other-code")] >>
delete_auth_code_cmds(auth_code) ==
    << [op |-> "DEL", key |-> auth_key(auth_code)] >>
safely_use_without_delete_cmds(auth_code) ==
    << [op |-> "GET", key |-> auth_key(auth_code)] >>
safely_use_and_delete_auth_code_cmds(auth_code) ==
    << [op |-> "GET", key |-> auth_key(auth_code)],
       [op |-> "DEL", key |-> auth_key(auth_code)] >>

Returned(v) == [raised |-> FALSE, value |-> v]
Raised == [raised |-> TRUE, value |-> None]

store_auth_code_optimistic(replies, err) ==
    IF err THEN Returned(TRUE) ELSE Returned(replies[1])
\* err: a redis.RedisError was raised inside the try block
store_auth_code(replies, err) ==
    IF err THEN Returned(FALSE) ELSE Returned(replies[1])

get_auth_code_data(replies, err) ==
    IF err THEN Returned(None)
    ELSE IF replies[1] = None THEN Returned(None)
    ELSE Returned(Some(json_loads(replies[1][1])))

delete_auth_code_reraise(replies, err) ==
    IF err THEN Raised ELSE Returned(replies[1])
delete_auth_code(replies, err) ==
    IF err THEN Returned(0) ELSE Returned(replies[1])

safely_use_and_delete_reraise(replies, err) ==
    IF err THEN Raised
    ELSE IF replies[1] = None THEN Returned(None)
    ELSE Returned(Some(json_loads(replies[1][1])))
safely_use_and_delete_auth_code(replies, err) ==
    IF err THEN Returned(None)
    ELSE IF replies[1] = None THEN Returned(None)
    ELSE Returned(Some(json_loads(replies[1][1])))

(***************************************************************************)
(* Requests.  A request is "wait"ing while its store operation is under    *)
(* way and "done" once it has its response.                                *)
(***************************************************************************)
NoResp == [status |-> 0, detail |-> "", auth_code |-> 0, token_type |-> "", access_token |-> None]

HTTPException(status_code, detail) == [NoResp EXCEPT !.status = status_code, !.detail = detail]

\* an exception no handler catches: the framework answers 500
InternalServerError == HTTPException(500, "An unexpected error occurred. Please try again later.")

NewRequest(kind, cmds) ==
    [kind |-> kind, proc |-> "web-1", boot |-> 0,
     pc |-> "wait", grant_type |-> "", code |-> 0, code_verifier |-> "",
     data |-> <<>>, pending |-> cmds, replies |-> <<>>, err |-> FALSE, resp |-> NoResp,
     ret |-> None]

AllRequests == authz \o tokens \o calls
\* the redis.RedisError raised so far
Faults == Cardinality({i \in 1..Len(AllRequests) : AllRequests[i].err})

\* the codes /authorize has handed to a client
ReturnedCodes == {authz[i].resp.auth_code : i \in {j \in 1..Len(authz) : authz[j].resp.status = 200}}

\* jose.jwt.encode: header, payload and the signature over them
jwt_encode(payload, key, algorithm) ==
    [header |-> [alg |-> algorithm, typ |-> "JWT"], payload |-> payload,
     signature |-> <<algorithm, key, payload>>]

\* os.getenv("SECRET_KEY"), os.getenv("ALGORITHM") as a server process read them when it
\* started: the value, or None when its environment does not define the variable
Configured == [SECRET_KEY |-> Some(SECRET_KEY), ALGORITHM |-> Some(ALGORITHM)]
Environments ==
    { Configured,
      [SECRET_KEY |-> None, ALGORITHM |-> Some(ALGORITHM)],
      [SECRET_KEY |-> Some(SECRET_KEY), ALGORITHM |-> None] }

jwt_encode_unsigned(payload, key, algorithm) ==
    IF key = None \/ algorithm = None
    THEN Returned([header |-> [alg |-> "none", typ |-> "JWT"], payload |-> payload, signature |-> <<>>])
    ELSE Returned(jwt_encode(payload, key[1], algorithm[1]))
\* jwt.encode(payload, SECRET_KEY, algorithm=ALGORITHM) with what os.getenv gave:
\* jose raises when there is no key, or no algorithm it supports, to sign with
jwt_encode_getenv(payload, key, algorithm) ==
    IF key = None \/ algorithm = None THEN Raised
    ELSE Returned(jwt_encode(payload, key[1], algorithm[1]))

\* Python's truth value of what safely_use_and_delete_auth_code returned
Falsy(v) == v = None \/ DOMAIN v[1] = {}

(***************************************************************************)
(* One step of a store operation.  The server executes the next batch of   *)
(* the request's commands at once.  outcome: "ok"; "lost": the batch is    *)
(* executed and redis.RedisError raised before its replies are read (a     *)
(* timeout); "unsent": redis.RedisError raised before the batch reaches    *)
(* the server (no connection, pool exhausted).                             *)
(***************************************************************************)
Outcomes == {"ok", "lost", "unsent"}

\* how many of the pending commands the server executes as one step
BatchSize(pending) == IF pipeline_transaction THEN Len(pending) ELSE 1

store_step_private(req, st, t, outcome) ==
    LET n   == BatchSize(req.pending)
        own == [m \in 1..n |-> [req.pending[m] EXCEPT !.key = <<"auth:", <<req.pending[m].key[2], req.proc, req.boot>> >>]]
        res == execute_all(st, own, t)
    IN  IF outcome = "unsent"
        THEN [req |-> [req EXCEPT !.err = TRUE, !.pending = <<>>], store |-> st]
        ELSE [req |-> [req EXCEPT !.err = (outcome = "lost"),
                                  !.pending = IF outcome = "lost" THEN <<>>
                                              ELSE SubSeq(req.pending, n + 1, Len(req.pending)),
                                  !.replies = IF outcome = "lost" THEN <<>>
                                              ELSE req.replies \o res.replies],
              store |-> res.store]
store_step(req, st, t, outcome) ==
    LET n   == BatchSize(req.pending)
        res == execute_all(st, SubSeq(req.pending, 1, n), t)
    IN  IF outcome = "unsent"
        THEN [req |-> [req EXCEPT !.err = TRUE, !.pending = <<>>], store |-> st]
        ELSE [req |-> [req EXCEPT !.err = (outcome = "lost"),
                                  !.pending = IF outcome = "lost" THEN <<>>
                                              ELSE SubSeq(req.pending, n + 1, Len(req.pending)),
                                  !.replies = IF outcome = "lost" THEN <<>>
                                              ELSE req.replies \o res.replies],
              store |-> res.store]

CanStep_exclusive(req, outcome) ==
    /\ req.pc = "wait"
    /\ Cardinality({k \in 1..Len(AllRequests) : AllRequests[k].pc = "wait"}) = 1
    /\ outcome # "ok" => Faults < MaxFaults
CanStep(req, outcome) ==
    /\ req.pc = "wait"
    /\ outcome # "ok" => Faults < MaxFaults

\* the operation is over: every command answered, or an error raised
Over(req) == req.err \/ req.pending = <<>>

(***************************************************************************)
(* POST /authorize                                                         *)
(***************************************************************************)
authorize_fixed_code(client_id, redirect_uri, code_challenge) ==
    /\ Len(authz) < MaxAuthorize /\ Len(authz) + Len(tokens) < MaxRequests
    /\ LET auth_code == uuid4(1)
           data == [client_id |-> client_id, redirect_uri |-> redirect_uri,
                    code_challenge |-> code_challenge, created_at |-> isoformat(now)]
       IN  authz' = Append(authz, [NewRequest("authorize", store_auth_code_cmds(auth_code, data))
                                      EXCEPT !.code = auth_code, !.data = data])
    /\ UNCHANGED <<redis_pool, users, creates, active_connections, sockets, boots, store, now, tokens, calls>>
authorize(client_id, redirect_uri, code_challenge) ==
    /\ Len(authz) < MaxAuthorize /\ Len(authz) + Len(tokens) < MaxRequests
    /\ LET auth_code == uuid4(Len(authz) + 1)
           data == [client_id |-> client_id, redirect_uri |-> redirect_uri,
                    code_challenge |-> code_challenge, created_at |-> isoformat(now)]
       IN  authz' = Append(authz, [NewRequest("authorize", store_auth_code_cmds(auth_code, data))
                                      EXCEPT !.code = auth_code, !.data = data])
    /\ UNCHANGED <<redis_pool, users, creates, active_connections, sockets, boots, store, now, tokens, calls>>

authorize_response_unchecked(req) ==
    [NoResp EXCEPT !.status = 200, !.auth_code = req.code]
\* the rest of authorize once store_auth_code has returned
authorize_response(req) ==
    LET result == store_auth_code(req.replies, req.err)
    IN  IF result.raised THEN InternalServerError
        ELSE IF ~result.value
        THEN HTTPException(500, "Failed to generate authorization code")
        ELSE [NoResp EXCEPT !.status = 200, !.auth_code = req.code]

\* store_auth_code runs, and authorize answers as soon as it has returned
AuthorizeStore(i, outcome) ==
    /\ CanStep(authz[i], outcome)
    /\ LET s == store_step(authz[i], store, now, outcome)
       IN  /\ store' = s.store
           /\ authz' = [authz EXCEPT ![i] =
                          IF Over(s.req)
                          THEN [s.req EXCEPT !.pc = "done", !.resp = authorize_response(s.req)]
                          ELSE s.req]
    /\ UNCHANGED <<redis_pool, users, creates, active_connections, sockets, boots, now, tokens, calls>>

(***************************************************************************)
(* POST /token                                                             *)
(***************************************************************************)
token_take_first(grant_type, code, code_verifier) ==
    /\ Len(tokens) < MaxToken /\ Len(authz) + Len(tokens) < MaxRequests
    /\ tokens' = Append(tokens, [NewRequest("token", safely_use_and_delete_auth_code_cmds(code))
                                    EXCEPT !.grant_type = grant_type, !.code = code,
                                           !.code_verifier = code_verifier])
    /\ UNCHANGED <<redis_pool, users, creates, active_connections, sockets, boots, store, now, authz, calls>>
token(grant_type, code, code_verifier) ==
    /\ Len(tokens) < MaxToken /\ Len(authz) + Len(tokens) < MaxRequests
    /\ LET req == [NewRequest("token", <<>>) EXCEPT !.grant_type = grant_type, !.code = code,
                                                    !.code_verifier = code_verifier]
       IN  IF grant_type # "authorization_code"
           THEN tokens' = Append(tokens, [req EXCEPT !.pc = "done",
                                             !.resp = HTTPException(400, "Unsupported grant type")])
           ELSE tokens' = Append(tokens, [req EXCEPT !.pending = safely_use_and_delete_auth_code_cmds(code)])
    /\ UNCHANGED <<redis_pool, users, creates, active_connections, sockets, boots, store, now, authz, calls>>

token_response_redirect_sub(req, t) ==
    LET result == safely_use_and_delete_auth_code(req.replies, req.err)
        stored == result.value
    IN  IF Falsy(stored) THEN HTTPException(400, "Invalid or expired code")
        ELSE IF compute_code_challenge(req.code_verifier) # stored[1]["code_challenge"]
        THEN HTTPException(400, "Invalid code verifier")
        ELSE [NoResp EXCEPT !.status = 200, !.token_type = "bearer",
                 !.access_token =
                    Some(jwt_encode([sub |-> stored[1]["redirect_uri"],
                                     exp |-> t + ACCESS_TOKEN_EXPIRE_MINUTES],
                                    SECRET_KEY, ALGORITHM))]
token_response_in_verifier_first(env, req, t) ==
    LET result == safely_use_and_delete_auth_code(req.replies, req.err)
        stored == result.value
        signed == jwt_encode_getenv([sub |-> stored[1]["client_id"],
                                     exp |-> t + ACCESS_TOKEN_EXPIRE_MINUTES],
                                    env.SECRET_KEY, env.ALGORITHM)
    IN  IF Falsy(stored) \/ compute_code_challenge(req.code_verifier) # stored[1]["code_challenge"]
        THEN HTTPException(400, "Invalid code verifier")
        ELSE IF signed.raised THEN InternalServerError
        ELSE [NoResp EXCEPT !.status = 200, !.token_type = "bearer",
                 !.access_token = Some(signed.value)]
\* the rest of token once safely_use_and_delete_auth_code has returned, at time t,
\* in a server process whose environment is env
token_response_in(env, req, t) ==
    LET result == safely_use_and_delete_auth_code(req.replies, req.err)
        stored == result.value
        signed == jwt_encode_getenv([sub |-> stored[1]["client_id"],
                                     exp |-> t + ACCESS_TOKEN_EXPIRE_MINUTES],
                                    env.SECRET_KEY, env.ALGORITHM)
    IN  IF result.raised THEN InternalServerError
        ELSE IF Falsy(stored) THEN HTTPException(400, "Invalid or expired code")
        ELSE IF ~({"code_challenge", "client_id"} \subseteq DOMAIN stored[1]) THEN InternalServerError
        ELSE IF compute_code_challenge(req.code_verifier) # stored[1]["code_challenge"]
        THEN HTTPException(400, "Invalid code verifier")
        ELSE IF signed.raised THEN InternalServerError
        ELSE [NoResp EXCEPT !.status = 200, !.token_type = "bearer",
                 !.access_token = Some(signed.value)]

\* the same in a process that has both variables
token_response(req, t) == token_response_in(Configured, req, t)

\* safely_use_and_delete_auth_code runs, and token answers as soon as it has returned
TokenTakeIn(env, i, outcome) ==
    /\ CanStep(tokens[i], outcome)
    /\ LET s == store_step(tokens[i], store, now, outcome)
       IN  /\ store' = s.store
           /\ tokens' = [tokens EXCEPT ![i] =
                           IF Over(s.req)
                           THEN [s.req EXCEPT !.pc = "done", !.resp = token_response_in(env, s.req, now)]
                           ELSE s.req]
    /\ UNCHANGED <<redis_pool, users, creates, active_connections, sockets, boots, now, authz, calls>>

TokenTake_checking_redirect(i, outcome) ==
    /\ CanStep(tokens[i], outcome)
    /\ LET s == store_step(tokens[i], store, now, outcome)
           r == token_response(s.req, now)
       IN  /\ store' = s.store
           /\ tokens' = [tokens EXCEPT ![i] =
                           IF Over(s.req)
                           THEN [s.req EXCEPT !.pc = "done",
                                    !.resp = IF r.status = 200 /\ r.access_token[1].payload.sub # "abc"
                                             THEN HTTPException(400, "Invalid client") ELSE r]
                           ELSE s.req]
    /\ UNCHANGED <<redis_pool, users, creates, active_connections, sockets, boots, now, authz, calls>>
\* the same in a process that has both variables
TokenTake(i, outcome) ==
    /\ CanStep(tokens[i], outcome)
    /\ LET s == store_step(tokens[i], store, now, outcome)
       IN  /\ store' = s.store
           /\ tokens' = [tokens EXCEPT ![i] =
                           IF Over(s.req)
                           THEN [s.req EXCEPT !.pc = "done", !.resp = token_response(s.req, now)]
                           ELSE s.req]
    /\ UNCHANGED <<redis_pool, users, creates, active_connections, sockets, boots, now, authz, calls>>

(***************************************************************************)
(* The Code Store called directly (as the unit tests of redis_manager do), *)
(* by any number of concurrent callers.                                    *)
(***************************************************************************)
CallCodes == {"test-auth-code", "other-code"}
CallData == { [client_id |-> "test-client", code_challenge |-> <<"t","e","s","t">>] }

Call(op, auth_code, data) ==
    /\ Len(calls) < MaxCalls
    /\ LET cmds == CASE op = "store"  -> store_auth_code_cmds(auth_code, data)
                     [] op = "get"    -> get_auth_code_data_cmds(auth_code)
                     [] op = "delete" -> delete_auth_code_cmds(auth_code)
                     [] op = "take"   -> safely_use_and_delete_auth_code_cmds(auth_code)
       IN  calls' = Append(calls, [NewRequest(op, cmds) EXCEPT !.code = auth_code, !.data = data])
    /\ UNCHANGED <<redis_pool, users, creates, active_connections, sockets, boots, store, now, authz, tokens>>

CallStoreAuthCode(auth_code, data) == Call("store", auth_code, data)
CallGetAuthCodeData(auth_code) == Call("get", auth_code, <<>>)
CallDeleteAuthCode(auth_code) == Call("delete", auth_code, <<>>)
CallSafelyUseAndDelete(auth_code) == Call("take", auth_code, <<>>)

\* what the operation returns to its caller
call_return(req) ==
    CASE req.kind = "store"  -> store_auth_code(req.replies, req.err)
      [] req.kind = "get"    -> get_auth_code_data(req.replies, req.err)
      [] req.kind = "delete" -> delete_auth_code(req.replies, req.err)
      [] req.kind = "take"   -> safely_use_and_delete_auth_code(req.replies, req.err)

CallStep(i, outcome) ==
    /\ CanStep(calls[i], outcome)
    /\ LET s == store_step(calls[i], store, now, outcome)
       IN  /\ store' = s.store
           /\ calls' = [calls EXCEPT ![i] =
                          IF Over(s.req)
                          THEN [s.req EXCEPT !.pc = "done", !.ret = Some(call_return(s.req))]
                          ELSE s.req]
    /\ UNCHANGED <<redis_pool, users, creates, active_connections, sockets, boots, now, authz, tokens>>

(***************************************************************************)
(* Time.                                                                   *)
(***************************************************************************)
Tick ==
    /\ now + TickMinutes <= MaxTime
    /\ now' = now + TickMinutes
    /\ store' = Expire(store, now')
    /\ UNCHANGED <<redis_pool, users, creates, active_connections, sockets, boots, authz, tokens, calls>>

Init ==
    /\ store = <<>>
    /\ now = 0
    /\ authz = <<>>
    /\ tokens = <<>>
    /\ calls = <<>>
    /\ boots = [p \in Procs |-> 0]
    /\ redis_pool = 0
    /\ users = <<>>
    /\ creates = <<>>
    /\ active_connections = <<>>
    /\ sockets = <<>>

Next ==
    \/ \E f \in AuthorizeForms : authorize(f[1], f[2], f[3])
    \/ \E g \in GrantTypes, c \in ReturnedCodes \cup {UnknownCode}, v \in Verifiers : token(g, c, v)
    \/ \E i \in 1..Len(authz), o \in Outcomes : AuthorizeStore(i, o)
    \/ \E i \in 1..Len(tokens), o \in Outcomes : TokenTake(i, o)
    \/ Tick

Spec == Init /\ [][Next]_vars

NextStore ==
    \/ \E c \in CallCodes, d \in CallData : CallStoreAuthCode(c, d)
    \/ \E c \in CallCodes : CallGetAuthCodeData(c)
    \/ \E c \in CallCodes : CallDeleteAuthCode(c)
    \/ \E c \in CallCodes : CallSafelyUseAndDelete(c)
    \/ \E i \in 1..Len(calls), o \in Outcomes : CallStep(i, o)
    \/ Tick

SpecStore == Init /\ [][NextStore]_vars

\* one caller: a Code Store operation is called when the one before it has returned
Returned_all == \A i \in 1..Len(calls) : calls[i].pc = "done"

NextSeq ==
    \/ Returned_all /\ \E c \in CallCodes, d \in CallData : CallStoreAuthCode(c, d)
    \/ Returned_all /\ \E c \in CallCodes : CallGetAuthCodeData(c)
    \/ Returned_all /\ \E c \in CallCodes : CallDeleteAuthCode(c)
    \/ Returned_all /\ \E c \in CallCodes : CallSafelyUseAndDelete(c)
    \/ \E i \in 1..Len(calls), o \in Outcomes : CallStep(i, o)
    \/ Tick

SpecSeq == Init /\ [][NextSeq]_vars

\* the flow served by processes of which some were started without SECRET_KEY or ALGORITHM
NextEnv ==
    \/ \E f \in {x \in AuthorizeForms : x[3] \in {KnownChallenge[v] : v \in Verifiers}} :
          authorize(f[1], f[2], f[3])
    \/ \E g \in GrantTypes, c \in ReturnedCodes \cup {UnknownCode}, v \in Verifiers : token(g, c, v)
    \/ \E i \in 1..Len(authz), o \in Outcomes : AuthorizeStore(i, o)
    \/ \E i \in 1..Len(tokens), o \in Outcomes, env \in Environments : TokenTakeIn(env, i, o)
    \/ Tick

SpecEnv == Init /\ [][NextEnv]_vars

(***************************************************************************)
(* The flow with its scheduling: every request is served by a thread of    *)
(* its own, which runs on until it has answered, and the Redis client      *)
(* either gets its reply or raises.                                        *)
(***************************************************************************)
NextLive ==
    \/ authorize("abc", "https://cb", KnownChallenge["test-verifier"])
    \/ \E c \in ReturnedCodes, v \in Verifiers : token("authorization_code", c, v)
    \/ \E i \in 1..Len(authz), o \in Outcomes : AuthorizeStore(i, o)
    \/ \E i \in 1..Len(tokens), o \in Outcomes : TokenTake(i, o)

\* the server keeps serving: while requests are pending, one of them is served
Scheduling ==
    /\ WF_vars(\E i \in 1..Len(authz), o \in Outcomes : AuthorizeStore(i, o))
    /\ WF_vars(\E i \in 1..Len(tokens), o \in Outcomes : TokenTake(i, o))

SpecLive == Init /\ [][NextLive]_vars /\ Scheduling

(***************************************************************************)
(* Several server processes on one store, and their restarts.  A process   *)
(* keeps in memory the requests it is serving and its connection pool; a   *)
(* restart loses both.                                                     *)
(***************************************************************************)
\* POST /authorize served by process p
authorize_on(p, client_id, redirect_uri, code_challenge) ==
    /\ Len(authz) < MaxAuthorize /\ Len(authz) + Len(tokens) < MaxRequests
    /\ LET auth_code == uuid4(Len(authz) + 1)
           data == [client_id |-> client_id, redirect_uri |-> redirect_uri,
                    code_challenge |-> code_challenge, created_at |-> isoformat(now)]
       IN  authz' = Append(authz, [NewRequest("authorize", store_auth_code_cmds(auth_code, data))
                                      EXCEPT !.code = auth_code, !.data = data,
                                             !.proc = p, !.boot = boots[p]])
    /\ UNCHANGED <<redis_pool, users, creates, active_connections, sockets, boots, store, now, tokens, calls>>

\* POST /token served by process p
token_on(p, grant_type, code, code_verifier) ==
    /\ Len(tokens) < MaxToken /\ Len(authz) + Len(tokens) < MaxRequests
    /\ LET req == [NewRequest("token", <<>>) EXCEPT !.grant_type = grant_type, !.code = code,
                                                    !.code_verifier = code_verifier,
                                                    !.proc = p, !.boot = boots[p]]
       IN  IF grant_type # "authorization_code"
           THEN tokens' = Append(tokens, [req EXCEPT !.pc = "done",
                                             !.resp = HTTPException(400, "Unsupported grant type")])
           ELSE tokens' = Append(tokens, [req EXCEPT !.pending = safely_use_and_delete_auth_code_cmds(code)])
    /\ UNCHANGED <<redis_pool, users, creates, active_connections, sockets, boots, store, now, authz, calls>>

\* a request process p was serving, once p has been stopped: it is never answered
Killed(p, req) ==
    IF req.proc = p /\ req.pc = "wait" THEN [req EXCEPT !.pc = "dead", !.pending = <<>>] ELSE req

\* process p is stopped and started again
Restart(p) ==
    /\ boots["web-1"] + boots["web-2"] < MaxRestarts
    /\ boots' = [boots EXCEPT ![p] = @ + 1]
    /\ authz' = [i \in 1..Len(authz) |-> Killed(p, authz[i])]
    /\ tokens' = [i \in 1..Len(tokens) |-> Killed(p, tokens[i])]
    /\ UNCHANGED <<redis_pool, users, creates, active_connections, sockets, store, now, calls>>

NextProcs ==
    \/ \E p \in Procs : authorize_on(p, "abc", "https://cb", KnownChallenge["test-verifier"])
    \/ \E p \in Procs, c \in ReturnedCodes, v \in Verifiers : token_on(p, "authorization_code", c, v)
    \/ \E i \in 1..Len(authz) : AuthorizeStore(i, "ok")
    \/ \E i \in 1..Len(tokens) : TokenTake(i, "ok")
    \/ \E p \in Procs : Restart(p)
    \/ Tick

SpecProcs == Init /\ [][NextProcs]_vars

(***************************************************************************)
(* The connection pool of one process (redis_manager.py l.10-15).  Every   *)
(* command, and every pipeline, takes one connection of the pool for the   *)
(* time of its exchange with the server and gives it back when the         *)
(* exchange ends, with a reply or with an error; the pool makes no         *)
(* connection beyond max_connections and raises redis.ConnectionError, a   *)
(* redis.RedisError, instead.  The callers are threads of the process.     *)
(***************************************************************************)
max_connections == 100

\* the connections held by the calls followed here
Holding == Cardinality({i \in 1..Len(calls) : calls[i].pc = "wait"})

\* a caller enters one of the four operations: r = get_redis_connection() makes a
\* client of the pool and takes no connection yet
PoolCall(op, auth_code, data) ==
    /\ Len(calls) < MaxPoolCalls
    /\ LET cmds == CASE op = "store"  -> store_auth_code_cmds(auth_code, data)
                     [] op = "get"    -> get_auth_code_data_cmds(auth_code)
                     [] op = "delete" -> delete_auth_code_cmds(auth_code)
                     [] op = "take"   -> safely_use_and_delete_auth_code_cmds(auth_code)
       IN  calls' = Append(calls, [NewRequest(op, cmds) EXCEPT !.pc = "start", !.code = auth_code, !.data = data])
    /\ UNCHANGED <<users, creates, active_connections, sockets, boots, redis_pool, store, now, authz, tokens>>

\* the command (r.setex, r.get, r.delete, pipe.execute) asks the pool for a connection
PoolGetConnection_unbounded(i) ==
    /\ calls[i].pc = "start"
    /\ redis_pool' = redis_pool + 1
    /\ calls' = [calls EXCEPT ![i].pc = "wait"]
    /\ UNCHANGED <<users, creates, active_connections, sockets, boots, store, now, authz, tokens>>
PoolGetConnection(i) ==
    /\ calls[i].pc = "start"
    /\ IF redis_pool < max_connections
       THEN /\ redis_pool' = redis_pool + 1
            /\ calls' = [calls EXCEPT ![i].pc = "wait"]
       ELSE /\ redis_pool' = redis_pool
            /\ LET r == [calls[i] EXCEPT !.err = TRUE]
               IN  calls' = [calls EXCEPT ![i] = [r EXCEPT !.pc = "done", !.ret = Some(call_return(r))]]
    /\ UNCHANGED <<users, creates, active_connections, sockets, boots, store, now, authz, tokens>>

\* the exchange with the server; the connection goes back to the pool when it ends
PoolCallStep(i, outcome) ==
    /\ CanStep(calls[i], outcome)
    /\ LET s == store_step(calls[i], store, now, outcome)
       IN  /\ store' = s.store
           /\ calls' = [calls EXCEPT ![i] =
                          IF Over(s.req)
                          THEN [s.req EXCEPT !.pc = "done", !.ret = Some(call_return(s.req))]
                          ELSE s.req]
           /\ redis_pool' = IF Over(s.req) THEN redis_pool - 1 ELSE redis_pool
    /\ UNCHANGED <<users, creates, active_connections, sockets, boots, now, authz, tokens>>

\* other threads of the process take n connections for operations of theirs
OtherCallersTake(n) ==
    /\ redis_pool = Holding
    /\ redis_pool + n <= max_connections
    /\ redis_pool' = redis_pool + n
    /\ UNCHANGED <<users, creates, active_connections, sockets, boots, store, now, authz, tokens, calls>>

\* and their operations end
OtherCallersRelease ==
    /\ redis_pool > Holding
    /\ redis_pool' = Holding
    /\ UNCHANGED <<users, creates, active_connections, sockets, boots, store, now, authz, tokens, calls>>

NextPool ==
    \/ \E d \in CallData : PoolCall("store", "test-auth-code", d)
    \/ \E op \in {"get", "delete", "take"} : PoolCall(op, "test-auth-code", <<>>)
    \/ \E i \in 1..Len(calls) : PoolGetConnection(i)
    \/ \E i \in 1..Len(calls), o \in Outcomes : PoolCallStep(i, o)
    \/ \E n \in {max_connections - 2, max_connections - 1, max_connections} : OtherCallersTake(n)
    \/ OtherCallersRelease

SpecPool == Init /\ [][NextPool]_vars

(***************************************************************************)
(* POST /users/ (user_routes.py create_user, user_controller.py).  The     *)
(* handler is a plain def: the framework runs each request in a thread of  *)
(* its pool, with a database session of its own, so the look-up of one     *)
(* request and the commit of another interleave.                           *)
(***************************************************************************)
Emails == {"test@example.com", "new@example.com"}

NoUser == [status |-> 0, detail |-> "", id |-> 0]

\* db.query(models.User).filter(models.User.email == email).first()
get_user_by_email(rows, email) ==
    IF \E n \in 1..Len(rows) : rows[n].email = email
    THEN Some(rows[CHOOSE n \in 1..Len(rows) : rows[n].email = email /\ \A m \in 1..(n - 1) : rows[m].email # email])
    ELSE None

\* a request arrives
create_user(email) ==
    /\ Len(creates) < MaxCreates
    /\ creates' = Append(creates, [email |-> email, pc |-> "start", resp |-> NoUser])
    /\ UNCHANGED <<redis_pool, active_connections, sockets, boots, store, now, authz, tokens, calls, users>>

\* l.13-16: the look-up, and 400 when it finds a row
create_user_lookup(i) ==
    /\ creates[i].pc = "start"
    /\ creates' = [creates EXCEPT ![i] =
                     IF get_user_by_email(users, creates[i].email) # None
                     THEN [@ EXCEPT !.pc = "done", !.resp = [NoUser EXCEPT !.status = 400, !.detail = "Email already registered"]]
                     ELSE [@ EXCEPT !.pc = "checked"]]
    /\ UNCHANGED <<redis_pool, active_connections, sockets, boots, store, now, authz, tokens, calls, users>>

\* l.17, user_controller.create_user: db.add, db.commit.  Column email is unique
\* (models.py l.12): the commit of a second row with the e-mail raises IntegrityError,
\* which the handler's except Exception turns into 500 (l.22-25)
create_user_commit(i) ==
    /\ creates[i].pc = "checked"
    /\ IF \E n \in 1..Len(users) : users[n].email = creates[i].email
       THEN /\ users' = users
            /\ creates' = [creates EXCEPT ![i] = [@ EXCEPT !.pc = "done",
                              !.resp = [NoUser EXCEPT !.status = 500, !.detail = "Internal server error: IntegrityError"]]]
       ELSE /\ users' = Append(users, [id |-> Len(users) + 1, email |-> creates[i].email])
            /\ creates' = [creates EXCEPT ![i] = [@ EXCEPT !.pc = "done",
                              !.resp = [NoUser EXCEPT !.status = 200, !.id = Len(users) + 1]]]
    /\ UNCHANGED <<redis_pool, active_connections, sockets, boots, store, now, authz, tokens, calls>>

NextUsers ==
    \/ \E e \in Emails : create_user(e)
    \/ \E i \in 1..Len(creates) : create_user_lookup(i)
    \/ \E i \in 1..Len(creates) : create_user_commit(i)

SpecUsers == Init /\ [][NextUsers]_vars

(***************************************************************************)
(* /ws/{user_id} (main.py websocket_endpoint).  The handlers are           *)
(* coroutines of one event loop: each runs from one await to the next, and *)
(* the chat loop between registration and the finally block awaits many    *)
(* times, so handlers of several connections overlap.                      *)
(***************************************************************************)
UserIds == {1, 2}

\* a client connects: a handler starts and awaits websocket.accept() (l.122)
websocket_connect(user_id) ==
    /\ Len(sockets) < MaxSockets
    /\ sockets' = Append(sockets, [user_id |-> user_id, pc |-> "accepting"])
    /\ UNCHANGED <<redis_pool, users, creates, boots, store, now, authz, tokens, calls, active_connections>>

\* accept returns and l.123 runs: active_connections[user_id] = websocket
websocket_accepted(i) ==
    /\ sockets[i].pc = "accepting"
    /\ sockets' = [sockets EXCEPT ![i].pc = "open"]
    /\ active_connections' = [u \in DOMAIN active_connections \cup {sockets[i].user_id} |->
                                IF u = sockets[i].user_id THEN i ELSE active_connections[u]]
    /\ UNCHANGED <<redis_pool, users, creates, boots, store, now, authz, tokens, calls>>

\* accept raises (the client is gone): l.122 is outside the try, nothing is registered
websocket_accept_raises(i) ==
    /\ sockets[i].pc = "accepting"
    /\ sockets' = [sockets EXCEPT ![i].pc = "closed"]
    /\ UNCHANGED <<redis_pool, users, creates, boots, store, now, authz, tokens, calls, active_connections>>

\* the chat loop ends (disconnect or exception) and the finally block runs (l.257-259):
\* if user_id in active_connections: del active_connections[user_id]
websocket_exit(i) ==
    /\ sockets[i].pc = "open"
    /\ sockets' = [sockets EXCEPT ![i].pc = "closed"]
    /\ active_connections' = [u \in DOMAIN active_connections \ {sockets[i].user_id} |-> active_connections[u]]
    /\ UNCHANGED <<redis_pool, users, creates, boots, store, now, authz, tokens, calls>>

NextSockets ==
    \/ \E u \in UserIds : websocket_connect(u)
    \/ \E i \in 1..Len(sockets) : websocket_accepted(i)
    \/ \E i \in 1..Len(sockets) : websocket_accept_raises(i)
    \/ \E i \in 1..Len(sockets) : websocket_exit(i)

SpecSockets == Init /\ [][NextSockets]_vars

(***************************************************************************)
(* Vocabulary of the properties.                                           *)
(***************************************************************************)
Tokens == 1..Len(tokens)
Issued == 1..Len(authz)

\* a token request that passed the grant-type check, on code c
Redeems(i, c) == tokens[i].grant_type = "authorization_code" /\ tokens[i].code = c
Done(i) == tokens[i].pc = "done"
\* its take returned the record
TookRecord(i) == Done(i) /\ ~tokens[i].err /\ tokens[i].replies # <<>> /\ tokens[i].replies[1] # None
GotToken(i) == Done(i) /\ tokens[i].resp.status = 200
InvalidCode(i) == Done(i) /\ tokens[i].resp = HTTPException(400, "Invalid or expired code")
InvalidVerifier(i) == Done(i) /\ tokens[i].resp = HTTPException(400, "Invalid code verifier")
\* the verifier is the one the challenge given to /authorize was derived from
\* (by the known answers, not by the model's encoder)
RightVerifier(i, c) == KnownChallenge[tokens[i].code_verifier] = authz[c].data["code_challenge"]
\* no record written for code c can have expired yet
WithinTTL(c) == now < authz[c].data["created_at"][2] + 10

(***************************************************************************)
(* C1  Single use under concurrency: of the token requests made with one   *)
(* returned code, at no time have two received a token; and when they all  *)
(* carry the right verifier, have all been answered, the store was         *)
(* reachable and the code has not expired, exactly one has a token and     *)
(* every other one 400 "Invalid or expired code".                          *)
(***************************************************************************)
C1_SingleUse ==
    \A c \in ReturnedCodes :
        LET S == {i \in Tokens : Redeems(i, c)}
        IN  /\ Cardinality({i \in S : GotToken(i)}) <= 1
            /\ ( /\ S # {}
                 /\ \A i \in S : Done(i) /\ ~tokens[i].err /\ RightVerifier(i, c)
                 /\ WithinTTL(c) )
               => /\ Cardinality({i \in S : GotToken(i)}) = 1
                  /\ \A i \in S : GotToken(i) \/ InvalidCode(i)

\* two requests in flight together: the one that arrived first lost
C1_Witness ==
    \E c \in ReturnedCodes : \E i, j \in Tokens :
        /\ i < j /\ Redeems(i, c) /\ Redeems(j, c)
        /\ RightVerifier(i, c) /\ RightVerifier(j, c)
        /\ ~tokens[i].err /\ ~tokens[j].err /\ WithinTTL(c)
        /\ InvalidCode(i) /\ GotToken(j)

(***************************************************************************)
(* C2  Atomic take: a take is never between its read and its delete, and   *)
(* the take and delete calls on one code that found a record (take         *)
(* returning it, delete returning 1) are never more than the records       *)
(* stored under that code.                                                 *)
(***************************************************************************)
Calls == 1..Len(calls)
Found(i) ==
    /\ calls[i].pc = "done" /\ calls[i].kind \in {"take", "delete"}
    /\ ~calls[i].ret[1].raised
    /\ IF calls[i].kind = "take" THEN calls[i].ret[1].value # None ELSE calls[i].ret[1].value = 1

C2_AtomicTake ==
    /\ \A i \in Calls : calls[i].kind = "take" /\ calls[i].pc = "wait" => calls[i].replies = <<>>
    /\ \A c \in CallCodes :
          Cardinality({i \in Calls : calls[i].code = c /\ Found(i)})
            <= Cardinality({i \in Calls : calls[i].code = c /\ calls[i].kind = "store"})

\* a take found the record while a take on the same code that began earlier is still under way
C2_Witness ==
    \E i, j \in Calls :
        /\ i < j /\ calls[i].code = calls[j].code
        /\ calls[i].kind = "take" /\ calls[i].pc = "wait"
        /\ calls[j].kind = "take" /\ Found(j)

(***************************************************************************)
(* C3  PKCE: a token request whose take returned the record gets a token   *)
(* if and only if base64url-without-padding of SHA-256 of its verifier is  *)
(* the challenge stored at issuance, and 400 "Invalid code verifier"       *)
(* otherwise.                                                              *)
(***************************************************************************)
C3_PKCE ==
    \A i \in Tokens :
        TookRecord(i) /\ tokens[i].grant_type = "authorization_code" =>
            /\ tokens[i].code \in Issued
            /\ GotToken(i) <=> RightVerifier(i, tokens[i].code)
            /\ ~GotToken(i) => InvalidVerifier(i)

C3_Witness ==
    \E i \in Tokens :
        /\ TookRecord(i) /\ GotToken(i)
        /\ tokens[i].code_verifier = "test-verifier"
        /\ authz[tokens[i].code].data["code_challenge"] = KnownChallenge["test-verifier"]

(***************************************************************************)
(* C4  A code is consumed by its first redemption attempt: once a token    *)
(* request on a code was answered with a token or with 400 "Invalid code   *)
(* verifier", every other answered request on that code that passed the    *)
(* grant-type check has 400 "Invalid or expired code".                     *)
(***************************************************************************)
C4_ConsumedByFirstAttempt ==
    \A c \in Issued : \A i, j \in Tokens :
        /\ i # j /\ Redeems(i, c) /\ Redeems(j, c)
        /\ GotToken(i) \/ InvalidVerifier(i)
        /\ Done(j)
        => InvalidCode(j)

\* the wrong verifier burned the code: the right one, sent later and in time, fails
C4_Witness ==
    \E c \in ReturnedCodes : \E i, j \in Tokens :
        /\ i < j /\ Redeems(i, c) /\ Redeems(j, c)
        /\ InvalidVerifier(i)
        /\ RightVerifier(j, c) /\ ~tokens[j].err /\ WithinTTL(c) /\ InvalidCode(j)

(***************************************************************************)
(* C5  Expiry: no record is in the store 10 minutes or more after it was   *)
(* written, and a token request whose take runs when the record of its     *)
(* code is not in the store is answered 400 "Invalid or expired code".     *)
(***************************************************************************)
C5_Expiry ==
    /\ [](\A k \in DOMAIN store : now < store[k].set_at + 10)
    /\ [][\A i \in Tokens :
            /\ tokens[i].pc = "wait" /\ tokens'[i].pc = "done"
            /\ auth_key(tokens[i].code) \notin DOMAIN store
            => tokens'[i].resp = HTTPException(400, "Invalid or expired code")]_vars

\* the only request ever made with a returned code, right verifier, store reachable: too late
C5_Witness ==
    \E c \in ReturnedCodes : \E i \in Tokens :
        /\ \A j \in Tokens : tokens[j].code = c => j = i
        /\ Redeems(i, c) /\ RightVerifier(i, c) /\ ~tokens[i].err
        /\ InvalidCode(i)
        /\ now >= authz[c].data["created_at"][2] + 10

(***************************************************************************)
(* C6  The grant-type gate precedes store access: a token request with     *)
(* another grant type is answered 400 "Unsupported grant type" at once,    *)
(* sends no command to the store, and leaves the store unchanged.          *)
(***************************************************************************)
C6_GrantTypeGate ==
    /\ [](\A i \in Tokens :
            tokens[i].grant_type # "authorization_code" =>
                /\ tokens[i].pc = "done"
                /\ tokens[i].resp = HTTPException(400, "Unsupported grant type")
                /\ tokens[i].pending = <<>> /\ tokens[i].replies = <<>> /\ ~tokens[i].err)
    /\ [][ /\ Len(tokens') = Len(tokens) + 1
           /\ tokens'[Len(tokens')].grant_type # "authorization_code"
           => store' = store ]_vars

\* refused on a code whose record is still there to be redeemed
C6_Witness ==
    \E i \in Tokens :
        /\ tokens[i].grant_type # "authorization_code" /\ Done(i)
        /\ tokens[i].code \in ReturnedCodes
        /\ auth_key(tokens[i].code) \in DOMAIN store

(***************************************************************************)
(* C7  End to end: a token is a bearer token whose subject is the          *)
(* client_id given to the /authorize that produced the code and whose      *)
(* expiry is the time of issue plus 30 minutes; the right verifier on a    *)
(* returned, unexpired code gets it unless another request took the record *)
(* first or the store failed; no second request on the code gets one.      *)
(***************************************************************************)
Payload(i) == tokens[i].resp.access_token[1].payload

C7_EndToEnd ==
    /\ [](\A i \in Tokens : GotToken(i) =>
            /\ tokens[i].resp.token_type = "bearer"
            /\ tokens[i].code \in Issued
            /\ Payload(i).sub = authz[tokens[i].code].data["client_id"]
            /\ \A j \in Tokens \ {i} : tokens[j].code = tokens[i].code /\ Done(j) => ~GotToken(j) /\ (Redeems(j, tokens[i].code) => InvalidCode(j)))
    /\ [](\A c \in ReturnedCodes : \A i \in Tokens :
            /\ Redeems(i, c) /\ Done(i) /\ RightVerifier(i, c) /\ ~tokens[i].err /\ WithinTTL(c)
            /\ \A j \in Tokens \ {i} : Redeems(j, c) => tokens[j].pc = "wait"
            => GotToken(i))
    /\ [][\A i \in Tokens :
            tokens[i].pc = "wait" /\ tokens'[i].resp.status = 200
            => tokens'[i].resp.access_token[1].payload.exp = now + 30]_vars

\* issued after the clock moved, to the second client, and refused the second time
C7_Witness ==
    \E i, j \in Tokens :
        /\ i # j /\ tokens[i].code = tokens[j].code
        /\ GotToken(i) /\ Payload(i).sub = "xyz" /\ Payload(i).exp > 30
        /\ Redeems(j, tokens[i].code) /\ InvalidCode(j)

(***************************************************************************)
(* C8  Fail closed: a token request whose take failed in the store is      *)
(* answered 400 "Invalid or expired code", and every token issued went to  *)
(* a request whose take returned a record.                                 *)
(***************************************************************************)
C8_FailClosed ==
    \A i \in Tokens :
        /\ Done(i) /\ tokens[i].err => InvalidCode(i)
        /\ GotToken(i) => TookRecord(i)

\* the record was there and the verifier right, but the store could not be reached
C8_Witness ==
    \E c \in ReturnedCodes : \E i \in Tokens :
        /\ Redeems(i, c) /\ Done(i) /\ tokens[i].err /\ RightVerifier(i, c)
        /\ auth_key(c) \in DOMAIN store
        /\ InvalidCode(i)

(***************************************************************************)
(* C9  No store operation propagates a backend error: when redis raises,   *)
(* store_auth_code returns False, get_auth_code_data None, delete_auth_code*)
(* 0 and safely_use_and_delete_auth_code None.                             *)
(***************************************************************************)
C9_NoPropagation ==
    \A i \in Calls :
        calls[i].pc = "done" /\ calls[i].err =>
            /\ ~calls[i].ret[1].raised
            /\ calls[i].kind = "store" => calls[i].ret[1].value = FALSE
            /\ calls[i].kind = "get" => calls[i].ret[1].value = None
            /\ calls[i].kind = "delete" => calls[i].ret[1].value = 0
            /\ calls[i].kind = "take" => calls[i].ret[1].value = None

\* a delete that failed although the record is there
C9_Witness ==
    \E i \in Calls :
        /\ calls[i].pc = "done" /\ calls[i].err /\ calls[i].kind = "delete"
        /\ auth_key(calls[i].code) \in DOMAIN store

(***************************************************************************)
(* C10  Authorize fails as a whole: /authorize returns the code if and     *)
(* only if the put reported success, and a 500 without any code otherwise, *)
(* a put that timed out after the record was written included.             *)
(***************************************************************************)
C10_AuthorizeFailsWhole ==
    \A c \in Issued :
        authz[c].pc = "done" =>
            IF ~authz[c].err /\ authz[c].replies = <<TRUE>>
            THEN authz[c].resp.status = 200 /\ authz[c].resp.auth_code = authz[c].code
            ELSE /\ authz[c].resp.status = 500
                 /\ authz[c].resp.auth_code = NoResp.auth_code

\* the put timed out: the record is written and the caller got a 500 and no code
C10_Witness ==
    \E c \in Issued :
        /\ authz[c].pc = "done" /\ authz[c].err
        /\ auth_key(c) \in DOMAIN store
        /\ authz[c].resp.status = 500

(***************************************************************************)
(* Vocabulary of the frame properties.                                     *)
(***************************************************************************)
\* the key auth:<code> as it is laid out in the store
KeyOf(code) == <<"auth:", code>>
\* the value of one field of a serialised record
Field(text, name) == text[CHOOSE n \in 1..Len(text) : text[n][1] = name][2]
\* every key but k is as it was
OthersUnchanged(k) ==
    /\ DOMAIN store' \ {k} = DOMAIN store \ {k}
    /\ \A x \in DOMAIN store \ {k} : store'[x] = store[x]

(***************************************************************************)
(* C11  Effect of authorize: the step in which /authorize succeeds writes  *)
(* one record, under auth:<returned code>, whose client_id, redirect_uri   *)
(* and code_challenge are the submitted ones, and changes no other key;    *)
(* receiving the request writes nothing.                                   *)
(***************************************************************************)
C11_AuthorizeEffect ==
    [][ /\ Len(authz') > Len(authz) => store' = store
        /\ \A i \in Issued :
              authz[i].pc = "wait" /\ authz'[i].resp.status = 200 =>
                 LET k == KeyOf(authz'[i].resp.auth_code)
                 IN  /\ k \in DOMAIN store'
                     /\ OthersUnchanged(k)
                     /\ << Field(store'[k].val, "client_id"), Field(store'[k].val, "redirect_uri"),
                           Field(store'[k].val, "code_challenge") >> \in AuthorizeForms
                     /\ \A f \in {"client_id", "redirect_uri", "code_challenge"} :
                           Field(store'[k].val, f) = authz[i].data[f] ]_vars

\* the second flow's record beside the first one's, each with its own client
C11_Witness ==
    /\ Len(authz) = 2 /\ authz[2].resp.status = 200
    /\ KeyOf(1) \in DOMAIN store /\ KeyOf(2) \in DOMAIN store
    /\ Field(store[KeyOf(1)].val, "client_id") = "abc"
    /\ Field(store[KeyOf(2)].val, "client_id") = "xyz"

(***************************************************************************)
(* C12  Effect of token: receiving a /token request writes nothing; the    *)
(* take step of a request that passed the grant-type check puts nothing,   *)
(* leaves every key but auth:<supplied code> as it was, and, whenever the  *)
(* take came back without a store error, leaves no record under that key,  *)
(* whether the verifier then matches or not.                               *)
(***************************************************************************)
C12_TokenEffect ==
    [][ /\ Len(tokens') > Len(tokens) => store' = store
        /\ \A i \in Tokens :
              tokens[i].pc = "wait" /\ tokens'[i].pc = "done" =>
                 LET k == KeyOf(tokens[i].code)
                 IN  /\ OthersUnchanged(k)
                     /\ k \in DOMAIN store' => k \in DOMAIN store /\ store'[k] = store[k]
                     /\ ~tokens'[i].err => k \notin DOMAIN store' ]_vars

\* code 1 burned by a wrong verifier while the record of code 2 stays in the store
C12_Witness ==
    \E i \in Tokens :
        /\ Redeems(i, 1) /\ InvalidVerifier(i)
        /\ 2 \in ReturnedCodes /\ authz[2].data["created_at"][2] = 0
        /\ KeyOf(1) \notin DOMAIN store /\ KeyOf(2) \in DOMAIN store

(***************************************************************************)
(* C13  No transition back to ISSUED: a key that is not in the store comes *)
(* into it only by the put of the one /authorize request that generated    *)
(* its code, a request makes its put once and is then done for good; so a  *)
(* record that has become absent (redeemed or expired) is never present    *)
(* again.                                                                  *)
(***************************************************************************)
C13_NoWayBack ==
    [][ /\ \A k \in DOMAIN store' \ DOMAIN store :
              /\ \E c \in Issued : k = KeyOf(authz[c].code) /\ authz[c].pc = "wait" /\ authz'[c].pc = "done"
              /\ \A c, d \in Issued : k = KeyOf(authz[c].code) /\ k = KeyOf(authz[d].code) => c = d
        /\ \A c \in Issued : authz[c].pc = "done" => authz'[c].pc = "done" ]_vars

\* code 1 redeemed and code 2 expired, and later flows have not brought either record back
C13_Witness ==
    /\ \E i \in Tokens : Redeems(i, 1) /\ GotToken(i)
    /\ 2 \in ReturnedCodes /\ ~WithinTTL(2)
    /\ DOMAIN store = {}

(***************************************************************************)
(* C14  Invariant on the store: every returned code that cannot have       *)
(* expired yet and on which no take has run has its record in the store,   *)
(* with the content authorize wrote; the store holds records of generated  *)
(* codes only; and of the token requests on one code at most one took the  *)
(* record.                                                                 *)
(***************************************************************************)
C14_StoreInvariant ==
    /\ DOMAIN store \subseteq {KeyOf(authz[c].code) : c \in Issued}
    /\ \A c \in ReturnedCodes :
          /\ ( WithinTTL(c) /\ \A i \in Tokens : Redeems(i, c) => tokens[i].pc = "wait" )
             => /\ KeyOf(c) \in DOMAIN store
                /\ \A f \in DOMAIN authz[c].data : Field(store[KeyOf(c)].val, f) = authz[c].data[f]
          /\ Cardinality({i \in Tokens : Redeems(i, c) /\ TookRecord(i)}) <= 1

\* five minutes after authorize, with a redemption under way, the record is still there
C14_Witness ==
    \E c \in ReturnedCodes : \E i \in Tokens :
        /\ Redeems(i, c) /\ tokens[i].pc = "wait"
        /\ now = authz[c].data["created_at"][2] + TickMinutes
        /\ KeyOf(c) \in DOMAIN store

(***************************************************************************)
(* C15  Records are immutable: a key that is in the store before and after *)
(* a step has the same entry, and the record a take returns is, field by   *)
(* field, the one authorize wrote for that code (client_id, redirect_uri,  *)
(* code_challenge, created_at).                                            *)
(***************************************************************************)
C15_Immutable ==
    [][ /\ \A k \in DOMAIN store \cap DOMAIN store' : store'[k] = store[k]
        /\ \A i \in Tokens :
              tokens[i].pc = "wait" /\ TookRecord(i)' =>
                 /\ tokens[i].code \in Issued
                 /\ \A f \in {"client_id", "redirect_uri", "code_challenge", "created_at"} :
                       Field(tokens'[i].replies[1][1], f) = authz[tokens[i].code].data[f] ]_vars

\* a record written at time 0 and taken five minutes later, another flow's put in between
C15_Witness ==
    \E i \in Tokens :
        /\ TookRecord(i) /\ tokens[i].code = 1
        /\ Field(tokens[i].replies[1][1], "created_at") = isoformat(0)
        /\ 2 \in ReturnedCodes /\ authz[2].data["client_id"] # authz[1].data["client_id"]
        /\ now = TickMinutes

(***************************************************************************)
(* C17  get does not consume: the step of a get_auth_code_data call leaves *)
(* the store as it was; the call returns the record, field by field, when  *)
(* the key is in the store and its time to live has not elapsed, and None  *)
(* when it is not (or when the store could not be reached).                *)
(***************************************************************************)
C17_GetDoesNotConsume ==
    [][ \A i \in Calls :
           calls[i].kind = "get" /\ calls[i].pc = "wait" /\ calls'[i].pc = "done" =>
              LET k == KeyOf(calls[i].code)
                  r == calls'[i].ret[1]
              IN  /\ store' = store
                  /\ ~r.raised
                  /\ IF ~calls'[i].err /\ k \in DOMAIN store /\ store[k].exp > now
                     THEN /\ r.value # None
                          /\ DOMAIN r.value[1] = {store[k].val[n][1] : n \in 1..Len(store[k].val)}
                          /\ \A f \in DOMAIN r.value[1] : r.value[1][f] = Field(store[k].val, f)
                     ELSE r.value = None ]_vars

\* store, get, take on one code: the get returned the record and the take still found it
C17_Witness ==
    \E i, j \in Calls :
        /\ i < j /\ calls[i].code = calls[j].code
        /\ calls[i].kind = "get" /\ calls[i].pc = "done" /\ calls[i].ret[1].value # None
        /\ calls[i].ret[1].value[1]["client_id"] = "test-client"
        /\ calls[j].kind = "take" /\ Found(j)

(***************************************************************************)
(* C18  Delete and take in sequence, as stated: of two successive delete   *)
(* or take calls on one code with no put in between, the second reports    *)
(* absence (0 or None) and leaves the store unchanged.                     *)
(***************************************************************************)
\* call i is a delete or take on the code of call j, made before it, no put on that code in between
Precedes(i, j) ==
    /\ i < j /\ calls[i].code = calls[j].code
    /\ calls[i].kind \in {"delete", "take"} /\ calls[j].kind \in {"delete", "take"}
    /\ \A k \in Calls : i < k /\ k < j => ~(calls[k].kind = "store" /\ calls[k].code = calls[j].code)
\* call j, a delete or take, runs in this step
Runs(j) == calls[j].kind \in {"delete", "take"} /\ calls[j].pc = "wait" /\ calls'[j].pc = "done"

C18_SecondReportsAbsence ==
    [][ \A j \in Calls : \A i \in Calls :
           Runs(j) /\ Precedes(i, j) => ~Found(j)' /\ store' = store ]_vars

(***************************************************************************)
(* C18 (amended)  Of two successive delete or take calls on one code with  *)
(* no put in between, at most one reports a record; and when the first     *)
(* returned without a store error having been raised in it, the second     *)
(* reports absence and leaves the store unchanged.                         *)
(***************************************************************************)
C18_Idempotent ==
    [][ \A j \in Calls : \A i \in Calls :
           Runs(j) /\ Precedes(i, j) =>
              /\ ~(Found(i) /\ Found(j)')
              /\ ~calls[i].err => ~Found(j)' /\ store' = store ]_vars

\* store, delete, take on one code: the delete reported 1, the take None
C18_Witness ==
    \E i, j \in Calls :
        /\ Precedes(i, j) /\ calls[j].pc = "done"
        /\ calls[i].kind = "delete" /\ Found(i)
        /\ calls[j].kind = "take" /\ ~calls[j].err /\ ~Found(j)
        /\ KeyOf(calls[j].code) \notin DOMAIN store

(***************************************************************************)
(* C19  No partial success in token: a response carries a token only with  *)
(* status 200, and the token is then signed with SECRET_KEY by ALGORITHM;  *)
(* a request that took the record with the right verifier and could not    *)
(* sign ends with the generic 500 and no token, and its step changed       *)
(* nothing but the record of its code, which is gone.                      *)
(***************************************************************************)
C19_NoPartialSuccess ==
    [][ \A i \in Tokens :
           tokens[i].pc = "wait" /\ tokens'[i].pc = "done" =>
              LET r == tokens'[i].resp
                  k == KeyOf(tokens[i].code)
              IN  /\ IF r.status = 200
                     THEN /\ r.access_token # None
                          /\ r.access_token[1].header = [alg |-> ALGORITHM, typ |-> "JWT"]
                          /\ r.access_token[1].signature = <<ALGORITHM, SECRET_KEY, r.access_token[1].payload>>
                     ELSE r.access_token = None /\ r.token_type = ""
                  /\ ( TookRecord(i)' /\ RightVerifier(i, tokens[i].code) /\ r.status # 200 )
                     => /\ r = HTTPException(500, "An unexpected error occurred. Please try again later.")
                        /\ k \in DOMAIN store /\ k \notin DOMAIN store'
                        /\ OthersUnchanged(k)
                        /\ authz' = authz
                        /\ \A j \in Tokens \ {i} : tokens'[j] = tokens[j] ]_vars

\* signing failed after the take: 500 without a token, and the code is spent for the retry
C19_Witness ==
    \E i, j \in Tokens :
        /\ i # j /\ tokens[i].code = tokens[j].code /\ tokens[i].code \in ReturnedCodes
        /\ TookRecord(i) /\ RightVerifier(i, tokens[i].code)
        /\ tokens[i].resp.status = 500 /\ tokens[i].resp.access_token = None
        /\ Redeems(j, tokens[i].code) /\ RightVerifier(j, tokens[i].code) /\ InvalidCode(j)

(***************************************************************************)
(* C20  The store is the only source of truth: a restart changes no        *)
(* record; a token request with the right verifier on a returned,          *)
(* unexpired code on which no attempt has been completed gets the token,   *)
(* whichever process serves it and however often the issuing or the        *)
(* serving process has been restarted since; and after a completed attempt *)
(* on a code, no request on that code gets a token from any process.       *)
(***************************************************************************)
C20_StoreIsTruth ==
    [][ /\ boots' # boots => store' = store
        /\ \A i \in Tokens :
              ( tokens[i].pc = "wait" /\ tokens'[i].pc = "done" /\ tokens[i].code \in ReturnedCodes ) =>
                 LET c == tokens[i].code
                     attempted == \E j \in Tokens \ {i} : Redeems(j, c) /\ tokens[j].pc = "done"
                 IN  /\ ( ~attempted /\ WithinTTL(c) /\ RightVerifier(i, c) ) => GotToken(i)'
                     /\ attempted => InvalidCode(i)' ]_vars

\* issued by web-1, which was then restarted; redeemed through web-2; the retry through
\* the restarted web-1 is refused
C20_Witness ==
    \E c \in ReturnedCodes : \E i, j \in Tokens :
        /\ authz[c].proc = "web-1" /\ authz[c].boot = 0
        /\ Redeems(i, c) /\ tokens[i].proc = "web-2" /\ GotToken(i)
        /\ Redeems(j, c) /\ tokens[j].proc = "web-1" /\ tokens[j].boot > authz[c].boot /\ InvalidCode(j)

C22_OrderOfChecks ==
    \A i \in Tokens :
        Done(i) =>
           /\ tokens[i].grant_type # "authorization_code"
                => tokens[i].resp = HTTPException(400, "Unsupported grant type") /\ tokens[i].replies = <<>>
           /\ ( tokens[i].grant_type = "authorization_code" /\ ~TookRecord(i) ) => InvalidCode(i)
           /\ InvalidVerifier(i) => tokens[i].grant_type = "authorization_code" /\ TookRecord(i)
           /\ GotToken(i) => tokens[i].grant_type = "authorization_code" /\ TookRecord(i)

\* a wrong grant type with a valid code and the right verifier, and the right grant type
\* with an unknown code and the right verifier
C22_Witness ==
    \E i, j \in Tokens :
        /\ tokens[i].grant_type = "password" /\ tokens[i].code \in ReturnedCodes
        /\ RightVerifier(i, tokens[i].code) /\ KeyOf(tokens[i].code) \in DOMAIN store
        /\ tokens[i].resp = HTTPException(400, "Unsupported grant type")
        /\ Redeems(j, UnknownCode) /\ tokens[j].code_verifier = "test-verifier" /\ InvalidCode(j)

(***************************************************************************)
(* C23  The four operations behave like a map from code to record.  Of a   *)
(* call that ends without a store error: store_auth_code returns true and  *)
(* leaves its record under auth:<c>; get_auth_code_data returns the record *)
(* of a present code and None of an absent one; safely_use_and_delete      *)
(* returns the record or None and leaves c absent; delete_auth_code        *)
(* returns 1 or 0 and leaves c absent; every call leaves all other keys as *)
(* they were.  And the record got or taken after a put of r, with no       *)
(* delete, take or put on the code in between and within the time to live, *)
(* is r.                                                                   *)
(***************************************************************************)
\* call i put its record, call j read the code later, nothing but gets on the code in between
PutThenRead(i, j) ==
    /\ i < j /\ calls[i].code = calls[j].code
    /\ calls[i].kind = "store" /\ calls[i].pc = "done" /\ calls[i].ret[1].value = TRUE
    /\ calls[j].kind \in {"get", "take"} /\ calls[j].pc = "done" /\ ~calls[j].err
    /\ \A k \in Calls : i < k /\ k < j /\ calls[k].code = calls[j].code => calls[k].kind = "get"

C23_MapLike ==
    /\ [][ \A i \in Calls :
              calls[i].pc = "wait" /\ calls'[i].pc = "done" =>
                 LET k == KeyOf(calls[i].code)
                     r == calls'[i].ret[1]
                     present == k \in DOMAIN store /\ store[k].exp > now
                 IN  /\ OthersUnchanged(k)
                     /\ ~r.raised
                     /\ ~calls'[i].err =>
                          CASE calls[i].kind = "store" ->
                                  /\ r.value = TRUE /\ k \in DOMAIN store'
                                  /\ {store'[k].val[n][1] : n \in 1..Len(store'[k].val)} = DOMAIN calls[i].data
                                  /\ \A f \in DOMAIN calls[i].data :
                                        Field(store'[k].val, f) = calls[i].data[f]
                            [] calls[i].kind = "get" ->
                                  /\ store' = store
                                  /\ present <=> r.value # None
                            [] calls[i].kind = "take" ->
                                  /\ k \notin DOMAIN store'
                                  /\ present <=> r.value # None
                            [] calls[i].kind = "delete" ->
                                  /\ k \notin DOMAIN store'
                                  /\ r.value = IF present THEN 1 ELSE 0 ]_vars
    /\ [](\A i, j \in Calls :
             PutThenRead(i, j) /\ now < expiry_minutes => calls[j].ret[1].value = Some(calls[i].data))

\* put, get, take on one code: both reads returned the record that was put
C23_Witness ==
    \E i, j, k \in Calls :
        /\ PutThenRead(i, j) /\ PutThenRead(i, k) /\ j < k
        /\ calls[j].kind = "get" /\ calls[k].kind = "take"
        /\ calls[j].ret[1].value = Some(calls[i].data)
        /\ calls[k].ret[1].value = Some(calls[i].data)
        /\ KeyOf(calls[i].code) \notin DOMAIN store

(***************************************************************************)
(* C24  The outcome of a token request (its status and detail) is a        *)
(* function of three things only: whether the grant type is                *)
(* "authorization_code", whether its take returned a record, and whether   *)
(* the verifier matches the challenge of that record.  Requests that agree *)
(* in the three have the same outcome, whatever client_id, redirect_uri    *)
(* and created_at the record holds.                                        *)
(***************************************************************************)
Outcome(i) == <<tokens[i].resp.status, tokens[i].resp.detail>>
Class(i) ==
    << tokens[i].grant_type = "authorization_code",
       TookRecord(i),
       TookRecord(i) /\ KnownChallenge[tokens[i].code_verifier] = Field(tokens[i].replies[1][1], "code_challenge") >>
OutcomeOf(class) ==
    IF ~class[1] THEN <<400, "Unsupported grant type">>
    ELSE IF ~class[2] THEN <<400, "Invalid or expired code">>
    ELSE IF ~class[3] THEN <<400, "Invalid code verifier">>
    ELSE <<200, "">>

C24_OutcomeDependsOnThree ==
    /\ \A i \in Tokens : Done(i) => Outcome(i) = OutcomeOf(Class(i))
    /\ \A i, j \in Tokens : Done(i) /\ Done(j) /\ Class(i) = Class(j) => Outcome(i) = Outcome(j)

\* two records with one challenge and different client_id, redirect_uri and created_at;
\* the later one redeemed
C24_Witness ==
    \E i \in Tokens :
        /\ Redeems(i, 2) /\ GotToken(i)
        /\ 1 \in ReturnedCodes /\ 2 \in ReturnedCodes
        /\ authz[1].data["code_challenge"] = authz[2].data["code_challenge"]
        /\ \A f \in {"client_id", "redirect_uri", "created_at"} : authz[1].data[f] # authz[2].data[f]

(***************************************************************************)
(* C25  The pool is bounded: a process never has more than max_connections *)
(* (100) connections in use.  An operation that asks for a connection      *)
(* while all are in use ends at once with its safe default (put FALSE,     *)
(* get and take None, delete 0), raises nothing and touches neither store  *)
(* nor pool; otherwise it takes one connection, and the step that ends the *)
(* operation, with a reply or with an error, gives that connection back.   *)
(***************************************************************************)
SafeDefault(kind) ==
    CASE kind = "store"  -> Returned(FALSE)
      [] kind = "delete" -> Returned(0)
      [] kind \in {"get", "take"} -> Returned(None)

Exhausted(i) == calls[i].pc = "done" /\ calls[i].err /\ calls[i].pending # <<>>

C25_BoundedPool ==
    /\ [](redis_pool \in 0..max_connections /\ Holding <= redis_pool)
    /\ [][\A i \in 1..Len(calls) :
            /\ calls[i].pc = "start" /\ calls'[i] # calls[i] =>
                 IF redis_pool = max_connections
                 THEN /\ calls'[i].pc = "done"
                      /\ calls'[i].ret = Some(SafeDefault(calls[i].kind))
                      /\ store' = store /\ redis_pool' = redis_pool
                 ELSE calls'[i].pc = "wait" /\ redis_pool' = redis_pool + 1
            /\ calls[i].pc = "wait" /\ calls'[i] # calls[i] =>
                 /\ calls'[i].pc = "done" /\ redis_pool' = redis_pool - 1
                 /\ ~calls'[i].ret[1].raised]_vars

\* the pool is full, one of its connections held by a call under way, and another
\* call found it exhausted
C25_Witness ==
    /\ redis_pool = max_connections
    /\ \E i, j \in 1..Len(calls) :
        /\ calls[i].pc = "wait"
        /\ Exhausted(j) /\ calls[j].ret = Some(SafeDefault(calls[j].kind))

(***************************************************************************)
(* C26  Every token issued is backed by a distinct issued code: there are  *)
(* never more successful token responses than successful authorize         *)
(* responses; two successful token responses are for different codes; the  *)
(* code of a successful token response was returned by authorize, its      *)
(* record was the one authorize wrote, and the challenge of that record is *)
(* the one the presented verifier hashes to.                               *)
(***************************************************************************)
C26_BackedByDistinctCode ==
    /\ Cardinality({i \in Tokens : GotToken(i)}) <= Cardinality(ReturnedCodes)
    /\ \A i, j \in Tokens : GotToken(i) /\ GotToken(j) /\ i # j => tokens[i].code # tokens[j].code
    /\ \A i \in Tokens : GotToken(i) =>
         /\ tokens[i].code \in ReturnedCodes
         /\ TookRecord(i)
         /\ tokens[i].replies[1] = Some(json_dumps(authz[tokens[i].code].data))
         /\ RightVerifier(i, tokens[i].code)

\* two codes issued, one of them redeemed, the other not
C26_Witness ==
    /\ Cardinality(ReturnedCodes) = 2
    /\ \E i \in Tokens : GotToken(i) /\ KeyOf(tokens[i].code) \notin DOMAIN store
    /\ \E c \in ReturnedCodes : KeyOf(c) \in DOMAIN store

(***************************************************************************)
(* C27  No orphan records: every record in the store belongs to a code     *)
(* that a successful authorize returned to its caller, and when authorize  *)
(* answers 500 no record of the code it generated is in the store.         *)
(***************************************************************************)
C27_NoOrphans ==
    /\ \A k \in DOMAIN store : \E c \in ReturnedCodes : k = KeyOf(c)
    /\ \A c \in Issued : authz[c].pc = "done" /\ authz[c].resp.status = 500 => KeyOf(c) \notin DOMAIN store

(***************************************************************************)
(* C27 (amended)  Every record in the store is the record an answered      *)
(* authorize built for the code it generated, kept for no longer than      *)
(* expiry_minutes.  authorize answers 200 only when its put was            *)
(* acknowledged; when it answers 500 a store error was raised in the put,  *)
(* the code was returned to no caller and no token request names it, but   *)
(* the record may be in the store (the error came after the server had     *)
(* executed the command) until it expires.                                 *)
(***************************************************************************)
C27_OrphansOnlyUnreturned ==
    /\ \A k \in DOMAIN store : \E c \in Issued :
         /\ k = KeyOf(c) /\ authz[c].pc = "done"
         /\ store[k].val = json_dumps(authz[c].data)
         /\ store[k].exp = store[k].set_at + expiry_minutes
    /\ \A c \in Issued : authz[c].pc = "done" =>
         /\ authz[c].resp.status = 200 => ~authz[c].err /\ authz[c].replies = <<TRUE>>
         /\ authz[c].resp.status # 200 =>
              /\ authz[c].err
              /\ authz[c].resp = HTTPException(500, "Failed to generate authorization code")
              /\ c \notin ReturnedCodes
              /\ \A i \in Tokens : tokens[i].code # c

\* authorize answered 500 and the record of its code is in the store
C27_Witness ==
    \E c \in Issued :
        /\ authz[c].pc = "done" /\ authz[c].resp.status = 500
        /\ KeyOf(c) \in DOMAIN store

(***************************************************************************)
(* C28  State unchanged on a failed take: a returned code whose record     *)
(* cannot have expired is absent from the store only when a token request  *)
(* observed its record; a take that ended in a backend error left it       *)
(* there.                                                                  *)
(***************************************************************************)
C28_LostOnlyToObserver ==
    \A c \in ReturnedCodes :
        WithinTTL(c) /\ KeyOf(c) \notin DOMAIN store => \E i \in Tokens : Redeems(i, c) /\ TookRecord(i)

(***************************************************************************)
(* C28 (amended)  A returned code whose record cannot have expired is      *)
(* absent from the store only when a token request on it either observed   *)
(* its record or had a backend error in its take (the error came after the *)
(* server had executed GET and DEL).  A take that ends in a backend error  *)
(* is answered 400 "Invalid or expired code", and no code gets a token     *)
(* from more than one request.                                             *)
(***************************************************************************)
C28_LostToObserverOrError ==
    /\ \A c \in ReturnedCodes :
         WithinTTL(c) /\ KeyOf(c) \notin DOMAIN store =>
            \E i \in Tokens : Redeems(i, c) /\ Done(i) /\ (TookRecord(i) \/ tokens[i].err)
    /\ \A i \in Tokens : Done(i) /\ tokens[i].err => InvalidCode(i) /\ ~TookRecord(i)
    /\ \A c \in ReturnedCodes : Cardinality({i \in Tokens : Redeems(i, c) /\ GotToken(i)}) <= 1

\* the record of a returned code is gone within its TTL and no request observed it:
\* the one take on it ended in a backend error
C28_Witness ==
    \E c \in ReturnedCodes :
        /\ WithinTTL(c) /\ KeyOf(c) \notin DOMAIN store
        /\ \E i \in Tokens : Redeems(i, c) /\ Done(i) /\ tokens[i].err
        /\ \A i \in Tokens : ~(Redeems(i, c) /\ TookRecord(i))

(***************************************************************************)
(* C29  User e-mail uniqueness: table users never holds two rows with one  *)
(* e-mail address; a create-user request answered 200 added the row it     *)
(* names, and every other answered request, its e-mail being registered    *)
(* already, was rejected with 400 "Email already registered" and added no  *)
(* row.                                                                    *)
(***************************************************************************)
C29_EmailUnique ==
    /\ \A n, m \in 1..Len(users) : users[n].email = users[m].email => n = m
    /\ Len(users) = Cardinality({i \in 1..Len(creates) : creates[i].resp.status = 200})
    /\ \A i \in 1..Len(creates) : creates[i].pc = "done" =>
         IF creates[i].resp.status = 200
         THEN users[creates[i].resp.id].email = creates[i].email
         ELSE creates[i].resp = [NoUser EXCEPT !.status = 400, !.detail = "Email already registered"]

(***************************************************************************)
(* C30  WebSocket registry consistency: active_connections has an entry    *)
(* for user_id exactly while a handler for that user_id is running         *)
(* (between its registration and its finally block), and the entry is the  *)
(* socket of a running handler of that user.                               *)
(***************************************************************************)
Running(i) == sockets[i].pc = "open"

C30_RegistryConsistent ==
    /\ \A u \in UserIds :
         u \in DOMAIN active_connections <=> \E i \in 1..Len(sockets) : sockets[i].user_id = u /\ Running(i)
    /\ \A u \in DOMAIN active_connections :
         Running(active_connections[u]) /\ sockets[active_connections[u]].user_id = u

====
